---- MODULE Spec2Model ----
(***************************************************************************)
(* Copy-job orchestration client (dunetuf.copy): ticket normalisation,     *)
(* ticket creation and the start / preview_start sequences of the Copy,    *)
(* CopyDune, CopyEnterprise, CopyDesignJet and CopyHomePro classes.        *)
(* The job manager, ticket store, alert channel and device are external    *)
(* collaborators: every call to them returns a value or raises, chosen     *)
(* nondeterministically.                                                   *)
(***************************************************************************)
EXTENDS Integers, Sequences, FiniteSets, TLC

\* ------------------------------------------------------------------ bounds
MaxPreviewReps == 2
MaxTimeout == 3
MinTimeout == 0 - 1
MaxDelay == 1

\* ------------------------------------------------------- program constants
PollInterval == 2
OK == 200

\* ------------------------------------------------------------- value sets
Variants == {"Copy", "CopyDune", "CopyEnterprise", "CopyDesignJet", "CopyHomePro"}
StatusCodes == {200, 400}
JobStates == {"initializing", "ready", "cancelled"}
TicketIds == {"", "ticket_1"}
StoreTicketIds == {"ticket_1", "ticket_2"}
Timeouts == {MinTimeout, 0, MaxTimeout}
ABSENT == "<absent>"
NONE == "None"
ReadyMsg == "Job has not reached the ready state after {0} seconds"

VARIABLES
    variant,        \* class of the orchestrator instance
    timeout,        \* self._job_manager.WAIT_START_JOB_TIMEOUT
    adf_flag,       \* self._adf_loaded   : "None" | "False"
    duplex_flag,    \* self._duplex       : "None" | "True"
    odup_flag,      \* self._output_duplex: "None" | "True"
    op,             \* operation in progress or just finished
    pc,             \* position inside the operation
    ticket_id,      \* argument of start / preview_start
    preview_reps,   \* argument of start / preview_start
    reps,           \* preview_reps as received by CopyDune.preview_start
    i,              \* iterations of the preview loop completed
    now,            \* wall clock, seconds since the operation began
    start_time,     \* local start_time of Copy.preview_start
    job_ready,      \* local job_ready of Copy.preview_start
    start_state,    \* local start_state of start
    adf_loaded,     \* local adf_loaded of start (device answer)
    payload_in,     \* payload as the caller built it
    flags_in,       \* the three flags as they were when create_ticket was called
    payload,        \* the same payload object, as modified in place
    new_ticket,     \* id returned by the ticket store's create
    calls,          \* job manager / device calls of this operation, in order
    tcalls,         \* ticket store calls of this operation, in order
    result,         \* outcome of the operation
    family,         \* Configuration(cdm).familyname of the device
    product,        \* Configuration(cdm).productname of the device
    entry,          \* class the caller instantiates
    caller,         \* module of the frame that called the running __new__
    cls,            \* cls of the running __new__
    cls_family,     \* class attribute Copy._family_name
    cls_product,    \* class attribute Copy._product_name
    cancel,         \* argument cancel of the deprecated flows
    familyname,     \* argument / local familyname of the deprecated flows
    output_duplex   \* local output_duplex of do_copy_job

vars == <<variant, timeout, adf_flag, duplex_flag, odup_flag, op, pc, ticket_id,
          preview_reps, reps, i, now, start_time, job_ready, start_state,
          adf_loaded, payload_in, flags_in, payload, new_ticket, calls, tcalls, result,
          family, product, entry, caller, cls, cls_family, cls_product,
          cancel, familyname, output_duplex>>

newVars == <<family, product, entry, caller, cls, cls_family, cls_product>>
flowVars == <<cancel, familyname, output_duplex>>
objVars == <<variant, timeout, newVars, flowVars>>
flagVars == <<adf_flag, duplex_flag, odup_flag>>
ticketVars == <<payload_in, flags_in, payload, new_ticket, tcalls>>
clockVars == <<now, start_time>>
argVars == <<op, ticket_id, preview_reps>>

\* ------------------------------------------------------------ call records
Call(fn, a1, a2, out, code, val) ==
    [fn |-> fn, a1 |-> a1, a2 |-> a2, out |-> out, code |-> code, val |-> val]

\* Copy.__init__, lines 88-91: no flag recorded yet
NoFlags == <<NONE, NONE, NONE>>

NoResult == [out |-> "none", code |-> 0, val |-> "", msg |-> "", arg |-> 0]
Returned(code, val) == [out |-> "return", code |-> code, val |-> val, msg |-> "", arg |-> 0]
Raised(kind, msg, arg) == [out |-> "raise", code |-> 0, val |-> kind, msg |-> msg, arg |-> arg]


\* ------------------------------------------------------------------ payload
\* A ticket payload: the 'src' and 'dest' sections, each absent, present without
\* its 'scan' / 'print' sub-dictionary, or present with it; ABSENT marks a key
\* that the dictionary does not hold.
SrcFull ==
    [src : {"scan"}, mediaSource : {ABSENT, "flatbed", "adf"},
     srcPlexMode : {ABSENT, "simplex", "duplex"}, resolution : {ABSENT, "", "e300Dpi"}]
SrcNone ==
    [src : {"absent", "noscan"}, mediaSource : {ABSENT}, srcPlexMode : {ABSENT},
     resolution : {ABSENT}]
DestFull ==
    [dest : {"print"}, destPlexMode : {ABSENT, "simplex", "duplex"},
     duplexBinding : {ABSENT, "oneSided", "twoSidedShortEdge"}]
DestNone ==
    [dest : {"absent", "noprint"}, destPlexMode : {ABSENT}, duplexBinding : {ABSENT}]

Join(s, d) ==
    [src |-> s.src, mediaSource |-> s.mediaSource, srcPlexMode |-> s.srcPlexMode,
     resolution |-> s.resolution, dest |-> d.dest, destPlexMode |-> d.destPlexMode,
     duplexBinding |-> d.duplexBinding]

Payloads == {Join(s, d) : s \in SrcFull \cup SrcNone, d \in DestFull \cup DestNone}

\* The empty dictionary {}
empty_payload ==
    [src |-> "absent", mediaSource |-> ABSENT, srcPlexMode |-> ABSENT, resolution |-> ABSENT,
     dest |-> "absent", destPlexMode |-> ABSENT, duplexBinding |-> ABSENT]

base_payload ==
    [src |-> "scan", mediaSource |-> ABSENT, srcPlexMode |-> ABSENT, resolution |-> ABSENT,
     dest |-> "print", destPlexMode |-> ABSENT, duplexBinding |-> ABSENT]

\* ----------------------------------------------------- ticket normalisation
\* The binding written for a duplex output ticket.
ForcedBindingKeepsOneSided(binding) ==
    IF binding = ABSENT THEN "twoSidedLongEdge" ELSE binding

ForcedBindingAlways(binding) == "twoSidedLongEdge"

ForcedBindingToggles(binding) ==
    IF binding = "twoSidedLongEdge" THEN "oneSided" ELSE "twoSidedLongEdge"

ForcedBinding(binding) ==
    IF binding = ABSENT \/ binding = "oneSided" THEN "twoSidedLongEdge" ELSE binding

\* A flag is assigned only inside the if that recognises its value; there is no
\* else branch, so a payload that does not name the value leaves the flag alone.
RecordedFlagTracksTicket(hit, value, old) == IF hit THEN value ELSE NONE

RecordedFlag(hit, value, old) == IF hit THEN value ELSE old

\* Copy._updating_ticket: the payload is modified in place and the flags are
\* assigned as the statements run, so a KeyError leaves what ran before it.
Copy_updating_ticket(p, adf, dup, odup) ==
    LET adf1 == RecordedFlag(p.src = "scan" /\ p.mediaSource = "flatbed", "False", adf)
        dup1 == RecordedFlag(p.src = "scan" /\ p.srcPlexMode = "duplex", "True", dup)
        isDuplexOut == p.dest = "print" /\ p.destPlexMode = "duplex"
    IN  IF p.src = "noscan"
        THEN [payload |-> p, adf |-> adf, dup |-> dup, odup |-> odup, err |-> "KeyError"]
        ELSE IF p.dest = "noprint"
        THEN [payload |-> p, adf |-> adf1, dup |-> dup1, odup |-> odup, err |-> "KeyError"]
        ELSE [payload |-> IF isDuplexOut
                          THEN [p EXCEPT !.duplexBinding = ForcedBinding(p.duplexBinding)]
                          ELSE p,
              adf |-> adf1, dup |-> dup1,
              odup |-> RecordedFlag(isDuplexOut, "True", odup),
              err |-> ""]

\* Python truthiness of payload.get("src", {}).get("scan", {}).get("resolution")
Truthy(v) == v # ABSENT /\ v # ""

\* CopyEnterprise._updating_ticket
CopyEnterprise_updating_ticket(p, adf, dup, odup) ==
    LET r == Copy_updating_ticket(p, adf, dup, odup)
    IN  IF r.err # "" THEN r
        ELSE IF r.payload.src = "scan" /\ Truthy(r.payload.resolution)
        THEN [r EXCEPT !.payload = [r.payload EXCEPT !.resolution = "e600Dpi"]]
        ELSE r

\* self._updating_ticket, resolved on the class of the instance
updating_ticket(v, p, adf, dup, odup) ==
    IF v = "CopyEnterprise"
    THEN CopyEnterprise_updating_ticket(p, adf, dup, odup)
    ELSE Copy_updating_ticket(p, adf, dup, odup)

TCall(fn, id, p, out) == [fn |-> fn, id |-> id, payload |-> p, out |-> out]

Idle == pc = "idle"

startLocals == <<reps, i, job_ready, start_state, adf_loaded>>

ResetStartLocals ==
    /\ reps' = 0
    /\ i' = 0
    /\ job_ready' = FALSE
    /\ start_state' = 0
    /\ adf_loaded' = FALSE
    /\ now' = 0
    /\ start_time' = 0

\* ------------------------------------------------------------ create_ticket
\* create_ticket, line 104: self._updating_ticket(payload)
CreateTicketBegin ==
    /\ Idle
    /\ \E p \in Payloads :
         LET r == updating_ticket(variant, p, adf_flag, duplex_flag, odup_flag)
         IN  /\ payload_in' = p
             /\ flags_in' = <<adf_flag, duplex_flag, odup_flag>>
             /\ payload' = r.payload
             /\ adf_flag' = r.adf
             /\ duplex_flag' = r.dup
             /\ odup_flag' = r.odup
             /\ IF r.err # ""
                THEN /\ pc' = "done"
                     /\ result' = Raised(r.err, "", 0)
                ELSE /\ pc' = "ticket_create"
                     /\ result' = NoResult
    /\ op' = "create_ticket"
    /\ UNCHANGED <<objVars, ticket_id, preview_reps, new_ticket, calls, tcalls, startLocals,
                   clockVars>>

\* An exception of the ticket store leaves create_ticket as it was raised.
TicketStoreErrorWrapped(e) == Raised("RuntimeError", e, 0)

TicketStoreError(e) == Raised(e, "", 0)

\* create_ticket, line 106: ticket_id = self._job_ticket.create(base_payload)
TicketCreate ==
    /\ pc = "ticket_create"
    /\ \/ \E id \in StoreTicketIds :
            /\ new_ticket' = id
            /\ tcalls' = Append(tcalls, TCall("create", "", base_payload, "return"))
            /\ pc' = "ticket_update"
            /\ UNCHANGED result
       \/ \E e \in {"ValidationError", "TransportError"} :
            /\ tcalls' = Append(tcalls, TCall("create", "", base_payload, e))
            /\ pc' = "done"
            /\ result' = TicketStoreError(e)
            /\ UNCHANGED new_ticket
    /\ UNCHANGED <<objVars, flagVars, argVars, startLocals, clockVars, payload_in, flags_in,
                   payload, calls>>

\* create_ticket, lines 110-112: self._job_ticket.update(ticket_id, payload); return
TicketUpdate ==
    /\ pc = "ticket_update"
    /\ \/ /\ tcalls' = Append(tcalls, TCall("update", new_ticket, payload, "return"))
          /\ result' = Returned(0, new_ticket)
       \/ \E e \in {"ValidationError", "TransportError"} :
            /\ tcalls' = Append(tcalls, TCall("update", new_ticket, payload, e))
            /\ result' = TicketStoreError(e)
    /\ pc' = "done"
    /\ UNCHANGED <<objVars, flagVars, argVars, startLocals, clockVars, payload_in, flags_in,
                   payload, new_ticket, calls>>


\* ------------------------------------------------- decisions of start
\* The preview_reps that CopyDune.preview_start receives. Copy.start and
\* CopyDesignJet.start call preview_start(job_id, ticket_id) without it, and
\* Copy.preview_start has no such parameter.
PassedPreviewReps(v, o, n) ==
    IF v = "Copy" THEN 0
    ELSE IF v = "CopyDesignJet" /\ o = "start" THEN 0
    ELSE n

\* CopyDune.preview_start: if preview_reps != 0: for _ in range(preview_reps)
PreviewLoopAlwaysEnters(n) == TRUE

PreviewLoopEnters(n) == n # 0 /\ 0 < n

PreviewLoopContinues(k, n) == k < n

\* Copy.preview_start: assert initialize_pending_state == 200
InitializeAcceptsAny(code) == TRUE

InitializeAccepted(code) == code = OK

\* Copy.preview_start: job_info.get('state') == 'ready'
IsReadyOrInitializing(state) == state \in {"ready", "initializing"}

IsReadyOrCancelled(state) == state \in {"ready", "cancelled"}

IsReady(state) == state = "ready"

\* Copy.preview_start: (time.time() - start_time) < WAIT_START_JOB_TIMEOUT
WithinTimeoutFromCallStart(t, st, to) == t < to

WithinTimeoutInclusive(t, st, to) == t - st <= to

WithinTimeout(t, st, to) == t - st < to

\* Copy.preview_start: the TimeoutError raised when the loop ends without ready
ReadyTimeoutWrongKind(to) == Raised("RuntimeError", ReadyMsg, to)

ReadyTimeout(to) == Raised("TimeoutError", ReadyMsg, to)

\* Copy._has_two_segment_pipeline on what the ticket store's get_info does:
\* it raises, returns data without src.scan.scanCaptureMode, or returns a mode.
CaptureInfos == {"raise", "nosrc", "noscan", "missing", "jobBuild", "standard"}

\* data = self._job_ticket.get_info(ticket_id); data['src']['scan']['scanCaptureMode']
ReadCaptureMode(info) ==
    IF info = "raise" THEN [err |-> "TransportError", val |-> ""]
    ELSE IF info \in {"nosrc", "noscan", "missing"} THEN [err |-> "KeyError", val |-> ""]
    ELSE [err |-> "", val |-> info]

\* the bare except: of _has_two_segment_pipeline
DetectionCatchesKeyErrorOnly(kind) == kind = "KeyError"

DetectionCatches(kind) == TRUE

has_two_segment_pipeline(info) ==
    LET r == ReadCaptureMode(info)
    IN  IF r.err = "" THEN [err |-> "", val |-> r.val = "jobBuild"]
        ELSE IF DetectionCatches(r.err) THEN [err |-> "", val |-> FALSE]
        ELSE [err |-> r.err, val |-> FALSE]

\* CopyDesignJet.start: get_copy_configuration()["copyMode"] == "printWhileScanning"
WaitsForPrintingAlways(mode) == TRUE

WaitsForPrinting(mode) == mode = "printWhileScanning"

\* Whether start goes on to the alert step after the 'Start' action:
\* Copy.start and CopyDesignJet.start return; CopyDune.start returns when
\* preview_reps == 0; CopyEnterprise.start always goes on.
ReachesAlertStep(v, n) ==
    IF v \in {"Copy", "CopyDesignJet"} THEN FALSE
    ELSE IF v = "CopyEnterprise" THEN TRUE
    ELSE n # 0

\* The condition under which start calls wait_for_alerts("flatbedAddPage").
\* flagAdf / flagOdup are self._adf_loaded / self._output_duplex, devAdf is the
\* device's isMediaLoaded('ADF').
WaitsForAlertOnlyIfFlatbedRecorded(v, n, flagAdf, flagOdup, devAdf) ==
    IF v = "CopyEnterprise" /\ n = 0
    THEN flagAdf = "False" /\ flagOdup = "True"
    ELSE ~devAdf

WaitsForAlert(v, n, flagAdf, flagOdup, devAdf) ==
    IF v = "CopyEnterprise" /\ n = 0
    THEN flagAdf # "True" /\ flagOdup = "True"
    ELSE ~devAdf

\* except TimeoutError: around the alert step
SwallowsNothing(kind) == FALSE

SwallowsEverything(kind) == TRUE

SwallowedByStart(kind) == kind = "TimeoutError"

\* return start_state
StartReturnsOK(code) == OK

StartReturnValue(code) == code

\* ------------------------------------------------------ start / preview_start
otherVars == <<objVars, flagVars, ticketVars, argVars>>

\* Where control goes when preview_start returns.
AfterPreviewStartAlwaysDetects ==
    IF op = "preview_start"
    THEN /\ pc' = "done"
         /\ result' = Returned(0, NONE)
    ELSE /\ pc' = "detect"
         /\ UNCHANGED result

AfterPreviewStartIgnoresTicket ==
    IF op = "preview_start"
    THEN /\ pc' = "done"
         /\ result' = Returned(0, NONE)
    ELSE /\ pc' = IF variant = "CopyDesignJet" THEN "detect" ELSE "start"
         /\ UNCHANGED result

AfterPreviewStart ==
    IF op = "preview_start"
    THEN /\ pc' = "done"
         /\ result' = Returned(0, NONE)
    ELSE /\ pc' = IF variant = "CopyDesignJet" /\ ticket_id # "" THEN "detect" ELSE "start"
         /\ UNCHANGED result

\* An exception leaves the operation; nothing is tried again.
FailRetries(kind) ==
    /\ pc' = "initialize"
    /\ UNCHANGED result

Fail(kind) ==
    /\ pc' = "done"
    /\ result' = Raised(kind, "", 0)

BeginStart ==
    /\ Idle
    /\ \E o \in {"start", "preview_start"}, t \in TicketIds, n \in 0..MaxPreviewReps :
         /\ (variant = "Copy" /\ o = "preview_start") => n = 0
         /\ op' = o
         /\ ticket_id' = t
         /\ preview_reps' = n
         /\ reps' = PassedPreviewReps(variant, o, n)
    /\ pc' = "initialize"
    /\ UNCHANGED <<objVars, flagVars, ticketVars, i, job_ready, start_state, adf_loaded,
                   clockVars, calls, result>>

\* Copy.preview_start, lines 178-181
Initialize ==
    /\ pc = "initialize"
    /\ \E d \in 0..MaxDelay :
         /\ now' = now + d
         /\ \/ \E c \in StatusCodes :
                 /\ calls' = Append(calls, Call("change_job_state", "Initialize",
                                                "initializeProcessing", "return", c, ""))
                 /\ IF InitializeAccepted(c)
                    THEN /\ pc' = "poll"
                         /\ start_time' = now + d
                         /\ UNCHANGED result
                    ELSE /\ Fail("AssertionError")
                         /\ UNCHANGED start_time
            \/ /\ calls' = Append(calls, Call("change_job_state", "Initialize",
                                              "initializeProcessing", "raise", 0,
                                              "TransportError"))
               /\ Fail("TransportError")
               /\ UNCHANGED start_time
    /\ UNCHANGED <<otherVars, reps, i, job_ready, start_state, adf_loaded>>

\* Copy.preview_start, lines 183-191: one pass of the while loop, or its exit
Poll ==
    /\ pc = "poll"
    /\ IF WithinTimeout(now, start_time, timeout)
       THEN \E d \in 0..MaxDelay :
              \/ \E s \in JobStates :
                   /\ calls' = Append(calls, Call("get_job_info", "", "", "return", 0, s))
                   /\ IF IsReady(s)
                      THEN /\ job_ready' = TRUE
                           /\ now' = now + d
                           /\ IF PreviewLoopEnters(reps)
                              THEN pc' = "preview" /\ UNCHANGED result
                              ELSE AfterPreviewStart
                      ELSE /\ now' = now + d + PollInterval
                           /\ UNCHANGED <<job_ready, pc, result>>
              \/ /\ calls' = Append(calls, Call("get_job_info", "", "", "raise", 0,
                                                "TransportError"))
                 /\ now' = now + d
                 /\ Fail("TransportError")
                 /\ UNCHANGED job_ready
       ELSE /\ pc' = "done"
            /\ result' = ReadyTimeout(timeout)
            /\ UNCHANGED <<calls, now, job_ready>>
    /\ UNCHANGED <<otherVars, reps, i, start_time, start_state, adf_loaded>>

\* CopyDune.preview_start, lines 92-95
Preview ==
    /\ pc = "preview"
    /\ \/ \E c \in StatusCodes :
            /\ calls' = Append(calls, Call("change_job_state", "Preview",
                                           "prepareProcessing", "return", c, ""))
            /\ pc' = "preview_wait"
            /\ UNCHANGED result
       \/ /\ calls' = Append(calls, Call("change_job_state", "Preview",
                                         "prepareProcessing", "raise", 0, "TransportError"))
          /\ Fail("TransportError")
    /\ UNCHANGED <<otherVars, reps, i, job_ready, start_state, adf_loaded, clockVars>>

\* The preview loop has no try block around its wait for 'ready'.
PreviewWaitToleratesTimeout(kind) == kind = "TimeoutError"

PreviewWaitTolerated(kind) == FALSE

\* CopyDune.preview_start, lines 96-97
PreviewWait ==
    /\ pc = "preview_wait"
    /\ \/ /\ calls' = Append(calls, Call("wait_for_job_state", "ready", "", "return", 0,
                                         "ready"))
          /\ i' = i + 1
          /\ IF PreviewLoopContinues(i + 1, reps)
             THEN pc' = "preview" /\ UNCHANGED result
             ELSE AfterPreviewStart
       \/ /\ calls' = Append(calls, Call("wait_for_job_state", "ready", "", "raise", 0,
                                         "TimeoutError"))
          /\ IF PreviewWaitTolerated("TimeoutError")
             THEN /\ i' = i + 1
                  /\ IF PreviewLoopContinues(i + 1, reps)
                     THEN pc' = "preview" /\ UNCHANGED result
                     ELSE AfterPreviewStart
             ELSE /\ Fail("TimeoutError")
                  /\ UNCHANGED i
    /\ UNCHANGED <<otherVars, reps, job_ready, start_state, adf_loaded, clockVars>>


\* CopyDesignJet.start, line 24: self._has_two_segment_pipeline(ticket_id)
Detect ==
    /\ pc = "detect"
    /\ \E info \in CaptureInfos :
         LET r == has_two_segment_pipeline(info)
         IN  /\ calls' = Append(calls, Call("get_info", ticket_id, "",
                                            IF info = "raise" THEN "raise" ELSE "return", 0,
                                            info))
             /\ IF r.err # ""
                THEN Fail(r.err)
                ELSE IF op = "has_two_segment_pipeline"
                THEN /\ pc' = "done"
                     /\ result' = Returned(0, IF r.val THEN "True" ELSE "False")
                ELSE /\ pc' = IF r.val THEN "prepare" ELSE "start"
                     /\ UNCHANGED result
    /\ UNCHANGED <<otherVars, startLocals, clockVars>>

\* A direct call of self._has_two_segment_pipeline(ticket_id)
BeginDetect ==
    /\ Idle
    /\ op' = "has_two_segment_pipeline"
    /\ ticket_id' \in TicketIds
    /\ pc' = "detect"
    /\ UNCHANGED <<objVars, flagVars, ticketVars, preview_reps, startLocals, clockVars, calls,
                   result>>

\* CopyDesignJet.start, lines 25-28
PrepareAcceptsAny(code) == TRUE

\* CopyDesignJet.start: assert status_code == 200 after 'Prepare_Processing'
PrepareAccepted(code) == code = OK

Prepare ==
    /\ pc = "prepare"
    /\ \/ \E c \in StatusCodes :
            /\ calls' = Append(calls, Call("change_job_state", "Prepare_Processing",
                                           "prepareProcessing", "return", c, ""))
            /\ IF PrepareAccepted(c)
               THEN pc' = "wait_processing" /\ UNCHANGED result
               ELSE Fail("AssertionError")
       \/ /\ calls' = Append(calls, Call("change_job_state", "Prepare_Processing",
                                         "prepareProcessing", "raise", 0, "TransportError"))
          /\ Fail("TransportError")
    /\ UNCHANGED <<otherVars, startLocals, clockVars>>

\* CopyDesignJet.start, line 29: self.wait_for_state(job_id, ["processing"])
WaitProcessing ==
    /\ pc = "wait_processing"
    /\ \/ /\ calls' = Append(calls, Call("wait_for_job_state", "processing", "", "return", 0,
                                         "processing"))
          /\ pc' = "wait_previews"
          /\ UNCHANGED result
       \/ /\ calls' = Append(calls, Call("wait_for_job_state", "processing", "", "raise", 0,
                                         "TimeoutError"))
          /\ Fail("TimeoutError")
    /\ UNCHANGED <<otherVars, startLocals, clockVars>>

\* CopyDesignJet.start, lines 31-32
WaitPreviewsDone ==
    /\ pc = "wait_previews"
    /\ \/ \E done \in {"True", "False"} :
            /\ calls' = Append(calls, Call("wait_for_all_previews_done", "", "", "return", 0,
                                           done))
            /\ IF done = "True"
               THEN pc' = "copy_config" /\ UNCHANGED result
               ELSE Fail("AssertionError")
       \/ /\ calls' = Append(calls, Call("wait_for_all_previews_done", "", "", "raise", 0,
                                         "TransportError"))
          /\ Fail("TransportError")
    /\ UNCHANGED <<otherVars, startLocals, clockVars>>

\* CopyDesignJet.start, line 34: self.get_copy_configuration()["copyMode"]
CopyModes == {"printWhileScanning", "printAfterScanning", ABSENT}
CopyConfig ==
    /\ pc = "copy_config"
    /\ \E mode \in CopyModes :
         /\ calls' = Append(calls, Call("get_copy_configuration", "", "", "return", 0, mode))
         /\ IF mode = ABSENT
            THEN Fail("KeyError")
            ELSE /\ pc' = IF WaitsForPrinting(mode) THEN "wait_printing" ELSE "start"
                 /\ UNCHANGED result
    /\ UNCHANGED <<otherVars, startLocals, clockVars>>

\* CopyDesignJet.start, line 36
WaitPrinting ==
    /\ pc = "wait_printing"
    /\ \/ /\ calls' = Append(calls, Call("wait_for_job_processing_sub_status", "printing", "",
                                         "return", 0, ""))
          /\ pc' = "start"
          /\ UNCHANGED result
       \/ /\ calls' = Append(calls, Call("wait_for_job_processing_sub_status", "printing", "",
                                         "raise", 0, "TimeoutError"))
          /\ Fail("TimeoutError")
    /\ UNCHANGED <<otherVars, startLocals, clockVars>>

\* The 'Start' action of Copy.start (163-164), CopyDune.start (58-62),
\* CopyEnterprise.start (42) and CopyDesignJet.start (38-39)
StartAction ==
    /\ pc = "start"
    /\ \/ \E c \in StatusCodes :
            /\ calls' = Append(calls, Call("change_job_state", "Start", "startProcessing",
                                           "return", c, ""))
            /\ start_state' = c
            /\ IF ReachesAlertStep(variant, preview_reps)
               THEN pc' = "media" /\ UNCHANGED result
               ELSE pc' = "done" /\ result' = Returned(StartReturnValue(c), "")
       \/ /\ calls' = Append(calls, Call("change_job_state", "Start", "startProcessing",
                                         "raise", 0, "TransportError"))
          /\ Fail("TransportError")
          /\ UNCHANGED start_state
    /\ UNCHANGED <<otherVars, reps, i, job_ready, adf_loaded, clockVars>>

\* adf_loaded = self._udw.mainApp.ScanMedia.isMediaLoaded('ADF') and the branch
\* that follows it (copy_dune.py 65-73, copy_enterprise.py 45-59)
MediaLoaded ==
    /\ pc = "media"
    /\ \E b \in BOOLEAN :
         /\ adf_loaded' = b
         /\ calls' = Append(calls, Call("isMediaLoaded", "ADF", "", "return", 0,
                                        IF b THEN "True" ELSE "False"))
         /\ IF WaitsForAlert(variant, preview_reps, adf_flag, odup_flag, b)
            THEN pc' = "wait_alert" /\ UNCHANGED result
            ELSE pc' = "done" /\ result' = Returned(StartReturnValue(start_state), "")
    /\ UNCHANGED <<otherVars, reps, i, job_ready, start_state, clockVars>>

AlertErrors == {"TimeoutError", "TransportError"}

\* What an error raised inside the try block does to start.
AlertRaisedAnswersAnyway(e) ==
    /\ pc' = "alert_action"
    /\ UNCHANGED result

AlertRaised(e) ==
    /\ pc' = "done"
    /\ result' = IF SwallowedByStart(e)
                 THEN Returned(StartReturnValue(start_state), "")
                 ELSE Raised(e, "", 0)

\* self._job_manager.wait_for_alerts("flatbedAddPage")
WaitAlert ==
    /\ pc = "wait_alert"
    /\ \/ /\ calls' = Append(calls, Call("wait_for_alerts", "flatbedAddPage", "", "return", 0,
                                         ""))
          /\ pc' = "alert_action"
          /\ UNCHANGED result
       \/ \E e \in AlertErrors :
            /\ calls' = Append(calls, Call("wait_for_alerts", "flatbedAddPage", "", "raise", 0,
                                           e))
            /\ AlertRaised(e)
    /\ UNCHANGED <<otherVars, startLocals, clockVars>>

\* self._job_manager.alert_action("flatbedAddPage", "Response_02"); return start_state
AlertAction ==
    /\ pc = "alert_action"
    /\ \/ /\ calls' = Append(calls, Call("alert_action", "flatbedAddPage", "Response_02",
                                         "return", 0, ""))
          /\ pc' = "done"
          /\ result' = Returned(StartReturnValue(start_state), "")
       \/ \E e \in AlertErrors :
            /\ calls' = Append(calls, Call("alert_action", "flatbedAddPage", "Response_02",
                                           "raise", 0, e))
            /\ AlertRaised(e)
    /\ UNCHANGED <<otherVars, startLocals, clockVars>>

\* The operation has returned or raised; the caller may begin another one.
\* ------------------------------------------------------ cancel, wait_for_state
JobIds == {"job_1", "job_2"}
Headers == {NONE, "headers"}
CancelCodes == {200, 404}
FinalStateLists == {"completed", "completed,cancelled"}
ReachedStates == {"completed", "cancelled"}
WaitTimeoutMsg == "Job did not reach a final state"

CancelReturnsOK(code) == OK

CancelReturnValue(code) == code

\* cancel: return self._job_manager.cancel_job(jobId, header)
Cancel ==
    /\ Idle
    /\ op' = "cancel"
    /\ pc' = "done"
    /\ \E j \in JobIds, h \in Headers :
         \/ \E c \in CancelCodes :
              /\ calls' = <<Call("cancel_job", j, h, "return", c, "")>>
              /\ result' = Returned(CancelReturnValue(c), "")
         \/ /\ calls' = <<Call("cancel_job", j, h, "raise", 0, "TransportError")>>
            /\ result' = Raised("TransportError", "", 0)
    /\ UNCHANGED <<objVars, flagVars, ticketVars, ticket_id, preview_reps, startLocals,
                   clockVars>>

\* What wait_for_state hands back for an outcome of wait_for_job_state.
WaitForStateTolerant(c) == Returned(0, IF c.out = "return" THEN c.val ELSE "")

WaitForStateResult(c) ==
    IF c.out = "return" THEN Returned(0, c.val) ELSE Raised(c.val, WaitTimeoutMsg, 0)

\* wait_for_state: return self._job_manager.wait_for_job_state(jobid, final_states)
WaitForState ==
    /\ Idle
    /\ op' = "wait_for_state"
    /\ pc' = "done"
    /\ \E j \in JobIds, fs \in FinalStateLists :
         \E c \in {Call("wait_for_job_state", fs, j, "return", 0, st) : st \in ReachedStates}
                \cup {Call("wait_for_job_state", fs, j, "raise", 0, e) :
                          e \in {"TimeoutError", "TransportError"}} :
              /\ calls' = <<c>>
              /\ result' = WaitForStateResult(c)
    /\ UNCHANGED <<objVars, flagVars, ticketVars, ticket_id, preview_reps, startLocals,
                   clockVars>>

Return ==
    /\ pc = "done"
    /\ pc' = "idle"
    /\ op' = "none"
    /\ ticket_id' = ""
    /\ preview_reps' = 0
    /\ payload_in' = base_payload
    /\ flags_in' = NoFlags
    /\ payload' = base_payload
    /\ new_ticket' = ""
    /\ calls' = <<>>
    /\ tcalls' = <<>>
    /\ result' = NoResult
    /\ ResetStartLocals
    /\ UNCHANGED <<objVars, flagVars>>

\* ------------------------------------------------------------ specification
\* Copy.__init__, lines 88-91: the three flags start as None.
Init ==
    /\ variant \in Variants
    /\ family = NONE
    /\ product = NONE
    /\ entry = NONE
    /\ caller = NONE
    /\ cls = NONE
    /\ cls_family = ABSENT
    /\ cls_product = ABSENT
    /\ cancel = NONE
    /\ familyname = NONE
    /\ output_duplex = FALSE
    /\ timeout \in Timeouts
    /\ adf_flag = NONE
    /\ duplex_flag = NONE
    /\ odup_flag = NONE
    /\ op = "none"
    /\ pc = "idle"
    /\ ticket_id = ""
    /\ preview_reps = 0
    /\ reps = 0
    /\ i = 0
    /\ now = 0
    /\ start_time = 0
    /\ job_ready = FALSE
    /\ start_state = 0
    /\ adf_loaded = FALSE
    /\ payload_in = base_payload
    /\ flags_in = NoFlags
    /\ payload = base_payload
    /\ new_ticket = ""
    /\ calls = <<>>
    /\ tcalls = <<>>
    /\ result = NoResult

Next ==
    \/ CreateTicketBegin
    \/ TicketCreate
    \/ TicketUpdate
    \/ BeginStart
    \/ Initialize
    \/ Poll
    \/ Preview
    \/ PreviewWait
    \/ BeginDetect
    \/ Detect
    \/ Prepare
    \/ WaitProcessing
    \/ WaitPreviewsDone
    \/ CopyConfig
    \/ WaitPrinting
    \/ StartAction
    \/ MediaLoaded
    \/ WaitAlert
    \/ AlertAction
    \/ Cancel
    \/ WaitForState
    \/ Return

Spec == Init /\ [][Next]_vars

\* ------------------------------------------------------------ construction
\* Instantiating a class runs the first __new__ of its MRO; each __new__ either
\* raises, instantiates another class, or passes cls on with super().__new__(cls).
Families == {"enterprise", "designjet", "homepro", "dune", "ares"}
Products == {"moreto", "beam", "hp_beam_mfp", "Beam"}
Classes == Variants \cup {"CopyBeam"}
CopyModule == "dunetuf.copy.copy"
CopyDuneModule == "dunetuf.copy.dune.copy_dune"
CopyHomeProModule == "dunetuf.copy.dune.homepro.copy_homepro"
CallerModules == {"tests.test_copy", CopyModule, CopyDuneModule}
OnlyViaCopy == "CopyDune (and its subclasses) can only be instantiated via Copy."
OnlyViaCopyDune == "CopyHomePro (and its subclasses) can only be instantiated via CopyDune."

\* caller_module.__name__.startswith(prefix), over the module names above
StartsWith(m, prefix) ==
    \/ m = prefix
    \/ m = CopyDuneModule /\ prefix = "dunetuf.copy"
    \/ m = CopyHomeProModule /\ prefix = "dunetuf.copy"

\* "beam" in cls._product_name
HasBeam(p) == p \in {"beam", "hp_beam_mfp"}

\* CopyEnterprise and CopyDesignJet define no __new__; copy_beam is not part of
\* the sources, CopyBeam is taken to inherit CopyHomePro.__new__.
FirstNew(c) ==
    IF c \in {"CopyHomePro", "CopyBeam"} THEN "CopyHomePro.__new__"
    ELSE IF c \in {"CopyDune", "CopyEnterprise", "CopyDesignJet"} THEN "CopyDune.__new__"
    ELSE "Copy.__new__"

\* cls as Copy.__new__ hands it to super().__new__
CopyNewKeepsClass(c) == c

CopyNewClass(c) == IF c = "Copy" THEN "CopyDune" ELSE c

NewFail(kind, msg) ==
    /\ pc' = "failed"
    /\ result' = Raised(kind, msg, 0)
    /\ UNCHANGED <<variant, caller, cls, cls_family, cls_product>>

\* return cast(Self, C(*args, **kwargs)) inside module m
NewInstantiate(c, m) ==
    /\ cls' = c
    /\ caller' = m
    /\ pc' = FirstNew(c)
    /\ UNCHANGED <<variant, result, cls_family, cls_product>>

\* return cast(Self, super().__new__(cls)) inside module m
NewSuper(next, m) ==
    /\ caller' = m
    /\ pc' = next
    /\ UNCHANGED <<variant, result, cls, cls_family, cls_product>>

opVars == <<timeout, flagVars, ticketVars, argVars, startLocals, clockVars, calls, flowVars>>

NewCall ==
    /\ pc \in {"new_idle", "made", "failed"}
    /\ \E e \in Variants, m \in CallerModules, f \in Families, p \in Products :
         /\ entry' = e
         /\ caller' = m
         /\ family' = f
         /\ product' = p
         /\ cls' = e
         /\ pc' = FirstNew(e)
    /\ variant' = NONE
    /\ result' = NoResult
    /\ UNCHANGED <<cls_family, cls_product, opVars>>

CopyHomeProNew ==
    /\ pc = "CopyHomePro.__new__"
    /\ IF cls = "CopyHomePro"
       THEN IF ~StartsWith(caller, CopyDuneModule)
            THEN NewFail("RuntimeError", OnlyViaCopyDune)
            ELSE IF cls_product = ABSENT
            THEN NewFail("AttributeError", "_product_name")
            ELSE IF HasBeam(cls_product)
            THEN NewInstantiate("CopyBeam", CopyHomeProModule)
            ELSE NewSuper("CopyDune.__new__", CopyHomeProModule)
       ELSE NewSuper("CopyDune.__new__", CopyHomeProModule)
    /\ UNCHANGED <<family, product, entry, opVars>>

CopyDuneNew ==
    /\ pc = "CopyDune.__new__"
    /\ IF cls = "CopyDune"
       THEN IF ~StartsWith(caller, CopyModule)
            THEN NewFail("RuntimeError", OnlyViaCopy)
            ELSE IF cls_family = ABSENT
            THEN NewFail("AttributeError", "_family_name")
            ELSE IF cls_family = "enterprise"
            THEN NewInstantiate("CopyEnterprise", CopyDuneModule)
            ELSE IF cls_family = "designjet"
            THEN NewInstantiate("CopyDesignJet", CopyDuneModule)
            ELSE IF cls_family = "homepro"
            THEN NewInstantiate("CopyHomePro", CopyDuneModule)
            ELSE NewSuper("Copy.__new__", CopyDuneModule)
       ELSE NewSuper("Copy.__new__", CopyDuneModule)
    /\ UNCHANGED <<family, product, entry, opVars>>

CopyNew ==
    /\ pc = "Copy.__new__"
    /\ cls_family' = IF cls = "Copy" THEN family ELSE cls_family
    /\ cls_product' = IF cls = "Copy" THEN product ELSE cls_product
    /\ cls' = CopyNewClass(cls)
    /\ variant' = cls'
    /\ pc' = "made"
    /\ UNCHANGED <<family, product, entry, caller, result, opVars>>

InitNew ==
    /\ variant = NONE
    /\ family \in Families
    /\ product \in Products
    /\ entry = NONE
    /\ caller = NONE
    /\ cls = NONE
    /\ cls_family = ABSENT
    /\ cls_product = ABSENT
    /\ cancel = NONE
    /\ familyname = NONE
    /\ output_duplex = FALSE
    /\ timeout \in Timeouts
    /\ adf_flag = NONE
    /\ duplex_flag = NONE
    /\ odup_flag = NONE
    /\ op = "none"
    /\ pc = "new_idle"
    /\ ticket_id = ""
    /\ preview_reps = 0
    /\ reps = 0
    /\ i = 0
    /\ now = 0
    /\ start_time = 0
    /\ job_ready = FALSE
    /\ start_state = 0
    /\ adf_loaded = FALSE
    /\ payload_in = base_payload
    /\ flags_in = NoFlags
    /\ payload = base_payload
    /\ new_ticket = ""
    /\ calls = <<>>
    /\ tcalls = <<>>
    /\ result = NoResult

NextNew ==
    \/ NewCall
    \/ CopyHomeProNew
    \/ CopyDuneNew
    \/ CopyNew

SpecNew == InitNew /\ [][NextNew]_vars

\* ---------------------------------------------------------- composite flows
\* do_preview_job and the deprecated do_copy_job, do_copy_preview_job and
\* start_copy_job, one flow on a new orchestrator: `calls` holds every
\* collaborator call of the flow in order, `tcalls` the ticket writes with their
\* payloads. The deprecated flows call no method that a variant overrides, so
\* they are run on the generic variant only.
Flows == {"do_preview_job", "do_copy_job", "do_copy_preview_job", "start_copy_job"}
CancelModes ==
    {"no", "after_init", "after_start", "after_create", "submit_and_exit",
     "submit_preview_and_exit", "after_preview"}
FlowPayloads ==
    {p \in Payloads :
        /\ p.srcPlexMode = ABSENT
        /\ <<p.mediaSource, p.resolution>> \in {<<ABSENT, ABSENT>>, <<"flatbed", "e300Dpi">>}
        /\ <<p.destPlexMode, p.duplexBinding>> \in
              {<<ABSENT, ABSENT>>, <<"duplex", ABSENT>>, <<"duplex", "oneSided">>}}
FlowJob == "job_1"

\* bool(payload) of get_copy_job_ticket
IsEmpty(p) == p.src = "absent" /\ p.dest = "absent"

\* The normalisation written in line in do_copy_job and do_copy_preview_job.
InlineNormalize(p, fam, adf, odup) ==
    LET adf1 == IF p.src = "scan" /\ p.mediaSource = "flatbed" THEN FALSE ELSE adf
        p1 == IF p.src = "scan" /\ p.resolution # ABSENT /\ fam = "enterprise"
              THEN [p EXCEPT !.resolution = "e600Dpi"]
              ELSE p
        isDuplexOut == p.dest = "print" /\ p.destPlexMode = "duplex"
    IN  IF p.src = "noscan"
        THEN [payload |-> p, adf |-> adf, odup |-> odup, err |-> "KeyError"]
        ELSE IF p.dest = "noprint"
        THEN [payload |-> p1, adf |-> adf1, odup |-> odup, err |-> "KeyError"]
        ELSE [payload |-> IF isDuplexOut
                          THEN [p1 EXCEPT !.duplexBinding = ForcedBinding(p1.duplexBinding)]
                          ELSE p1,
              adf |-> adf1, odup |-> (odup \/ isDuplexOut), err |-> ""]

\* The collaborator call made at a position of a flow.
PlainStep ==
    [t_info |-> Call("get_job_ticket_info", new_ticket, "", "return", 0, ""),
     create_job |-> Call("create_job", new_ticket, "", "return", 0, FlowJob),
     check_created |-> Call("check_job_state", "created", "", "return", 0, ""),
     initialize |-> Call("change_job_state", "Initialize", "initializeProcessing", "return", 0, ""),
     cancel_job |-> Call("cancel_job", FlowJob, "", "return", 0, ""),
     history |-> Call("get_job_history", "", "", "return", 0, ""),
     check_ready |-> Call("check_job_state", "ready", "", "return", 0, ""),
     preview |-> Call("change_job_state", "Preview", "prepareProcessing", "return", 0, ""),
     check_ready_2 |-> Call("check_job_state", "ready", "", "return", 0, ""),
     start |-> Call("change_job_state", "Start", "startProcessing", "return", 0, ""),
     as_cancel |-> Call("cancel_job", FlowJob, "", "return", 0, ""),
     as_completed |-> Call("check_job_state", "completed", "True", "return", 0, ""),
     dismiss |-> Call("dismiss_mdf_eject_page_alert", "", "", "return", 0, ""),
     completed |-> Call("check_job_state", "completed", "", "return", 0, ""),
     check_processing |-> Call("check_job_state", "processing", "", "return", 0, ""),
     ts_prepare |-> Call("change_job_state", "Prepare_Processing", "prepareProcessing", "return", 0, ""),
     ts_check_processing |-> Call("check_job_state", "processing", "", "return", 0, ""),
     ts_previews |-> Call("wait_all_previews_done", FlowJob, "", "return", 0, ""),
     ts_start |-> Call("change_job_state", "Start", "startProcessing", "return", 0, ""),
     ts_cancel |-> Call("cancel_job", FlowJob, "", "return", 0, ""),
     ts_completed |-> Call("check_job_state", "completed", "", "return", 0, ""),
     ts_status |-> Call("check_job_completion_status", FlowJob, "", "return", 0, ""),
     cleanup |-> Call("ssh.run", "rm -f /tmp/PUID_*.tiff", "", "return", 0, "")]

\* How a collaborator call fails: the checks assert, the others raise.
FlowFailure(fn) ==
    IF fn \in {"check_job_state", "get_job_history", "check_job_completion_status"}
    THEN "AssertionError"
    ELSE "TransportError"

\* After 'Start' and the alert step: do_copy_job 541-554, do_copy_preview_job 666-677
AfterAlert ==
    IF cancel = "after_start" THEN "as_cancel"
    ELSE IF cancel = "submit_and_exit" THEN "cleanup"
    ELSE IF op = "do_copy_job" THEN "mdf"
    ELSE "completed"

\* After the preview loop of do_copy_preview_job, line 641
AfterPreviews == IF cancel = "after_preview" THEN "cancel_job" ELSE "check_ready_2"

\* proccess_job_two_segment_completion_check, lines 441-447
AfterTwoSegmentStart == IF cancel = "submit_and_exit" THEN "cleanup" ELSE "ts_completed"

\* After create_job: do_preview_job 358, do_copy_job 499-508, start_copy_job 704
AfterCreateJobUpdatesTicket == "t_update"

AfterCreateJobIgnoresCancel == "check_created"

AfterCreateJob ==
    IF op \in {"do_copy_job", "do_copy_preview_job"} /\ cancel = "after_create"
    THEN "cancel_job"
    ELSE "check_created"

\* The position that follows a call that returned.
After(at) ==
    CASE at = "t_info" -> "create_job"
      [] at = "create_job" -> AfterCreateJob
      [] at = "check_created" -> "initialize"
      [] at = "initialize" ->
            IF op \in {"do_copy_job", "do_copy_preview_job"} /\ cancel = "after_init"
            THEN "cancel_job"
            ELSE "check_ready"
      [] at = "cancel_job" -> "history"
      [] at = "history" -> "cleanup"
      [] at = "check_ready" ->
            IF op = "do_preview_job" THEN "preview"
            ELSE IF op = "start_copy_job" THEN "start"
            ELSE IF op = "do_copy_job" THEN "detect"
            ELSE IF preview_reps > 0 THEN "preview"
            ELSE AfterPreviews
      [] at = "preview" -> IF op = "do_preview_job" THEN "return" ELSE "check_ready_p"
      [] at = "check_ready_2" -> "start"
      [] at = "start" ->
            IF op = "start_copy_job" THEN "check_processing"
            ELSE IF op = "do_copy_preview_job" THEN "media"
            ELSE IF familyname = "enterprise" /\ ~adf_loaded /\ output_duplex
            THEN "alert_wait"
            ELSE AfterAlert
      [] at = "as_cancel" -> "as_completed"
      [] at = "as_completed" -> "cleanup"
      [] at = "dismiss" -> "completed"
      [] at = "completed" -> "cleanup"
      [] at = "check_processing" -> "return"
      [] at = "ts_prepare" -> "ts_check_processing"
      [] at = "ts_check_processing" ->
            IF cancel = "submit_preview_and_exit" THEN "cleanup" ELSE "ts_previews"
      [] at = "ts_previews" -> "ts_start"
      [] at = "ts_start" -> IF cancel = "after_start" THEN "ts_cancel" ELSE AfterTwoSegmentStart
      [] at = "ts_cancel" -> AfterTwoSegmentStart
      [] at = "ts_completed" -> "ts_status"
      [] at = "ts_status" -> "cleanup"
      [] at = "cleanup" -> "return"

\* What the flow returns: the ticket id, the job id, or nothing.
FlowResult ==
    IF op = "do_preview_job" THEN Returned(0, new_ticket)
    ELSE IF op = "do_copy_preview_job" THEN Returned(0, NONE)
    ELSE Returned(0, FlowJob)

FlowGoto(next) ==
    IF next = "return"
    THEN pc' = "done" /\ result' = FlowResult
    ELSE pc' = next /\ UNCHANGED result

flowFrame ==
    <<variant, timeout, newVars, op, cancel, payload_in, flags_in, preview_reps, ticket_id,
      reps,
      job_ready, start_state, clockVars>>

FlowBegin ==
    /\ pc = "f_idle"
    /\ \E f \in Flows, p \in Payloads, c \in CancelModes, fam \in {"", "enterprise"},
          adf \in BOOLEAN, n \in 0..MaxPreviewReps :
         /\ f # "do_preview_job" => p \in FlowPayloads
         /\ f \in {"do_preview_job", "start_copy_job"} => (c = "no" /\ fam = "" /\ adf /\ n = 0)
         /\ f = "do_copy_job" => n = 0
         /\ f = "do_copy_preview_job" => adf
         /\ f # "do_preview_job" => variant = "CopyDune"
         /\ op' = f
         /\ payload_in' = p
         /\ payload' = p
         /\ cancel' = c
         /\ familyname' = fam
         /\ adf_loaded' = adf
         /\ preview_reps' = n
         /\ pc' = IF f = "do_preview_job" THEN "pj_normalize"
                  ELSE IF f = "start_copy_job" THEN "t_create"
                  ELSE "f_family"
    /\ UNCHANGED <<variant, timeout, newVars, flagVars, ticket_id, reps, job_ready, start_state,
                   clockVars, output_duplex, i, new_ticket, calls, tcalls, result, flags_in>>

\* do_copy_job 469-473: familyname = self.configuration.familyname, errors swallowed
FlowFamily ==
    /\ pc = "f_family"
    /\ IF familyname = ""
       THEN \E f \in {"", "enterprise", "dune"} :
              /\ familyname' = f
              /\ calls' = Append(calls, Call("familyname", "", "",
                                             IF f = "" THEN "raise" ELSE "return", 0, f))
       ELSE UNCHANGED <<familyname, calls>>
    /\ pc' = "f_normalize"
    /\ UNCHANGED <<flowFrame, flagVars, payload, new_ticket, tcalls, adf_loaded, output_duplex,
                   i, result>>

\* do_preview_job 352, create_ticket 104, do_copy_job 475-492
FlowNormalize ==
    /\ pc \in {"pj_normalize", "pj_ct_normalize", "f_normalize"}
    /\ IF pc = "f_normalize"
       THEN LET r == InlineNormalize(payload, familyname, adf_loaded, output_duplex)
            IN  /\ payload' = r.payload
                /\ adf_loaded' = r.adf
                /\ output_duplex' = (op = "do_copy_job" /\ r.odup)
                /\ IF r.err # "" THEN Fail(r.err) ELSE pc' = "t_create" /\ UNCHANGED result
                /\ UNCHANGED flagVars
       ELSE LET r == updating_ticket(variant, payload, adf_flag, duplex_flag, odup_flag)
            IN  /\ payload' = r.payload
                /\ adf_flag' = r.adf
                /\ duplex_flag' = r.dup
                /\ odup_flag' = r.odup
                /\ IF r.err # ""
                   THEN Fail(r.err)
                   ELSE /\ pc' = IF pc = "pj_normalize" THEN "pj_ct_normalize" ELSE "t_create"
                        /\ UNCHANGED result
                /\ UNCHANGED <<adf_loaded, output_duplex>>
    /\ UNCHANGED <<flowFrame, familyname, new_ticket, calls, tcalls, i>>

\* create_ticket 106 / get_copy_job_ticket 388
FlowTicketCreate ==
    /\ pc = "t_create"
    /\ LET fn == IF op = "do_preview_job" THEN "create" ELSE "create_job_ticket"
       IN  \/ \E id \in StoreTicketIds :
                /\ new_ticket' = id
                /\ calls' = Append(calls, Call(fn, "", "", "return", 0, id))
                /\ tcalls' = Append(tcalls, TCall(fn, "", base_payload, "return"))
                /\ pc' = IF op = "do_preview_job" \/ ~IsEmpty(payload)
                         THEN "t_update"
                         ELSE "t_info"
                /\ UNCHANGED result
           \/ /\ calls' = Append(calls, Call(fn, "", "", "raise", 0, "TransportError"))
              /\ tcalls' = Append(tcalls, TCall(fn, "", base_payload, "TransportError"))
              /\ result' = TicketStoreError("TransportError")
              /\ pc' = "done"
              /\ UNCHANGED new_ticket
    /\ UNCHANGED <<flowFrame, flagVars, familyname, payload, adf_loaded, output_duplex, i>>

\* create_ticket 110 / get_copy_job_ticket 390-392
FlowTicketUpdate ==
    /\ pc = "t_update"
    /\ LET fn == IF op = "do_preview_job" THEN "update" ELSE "update_job_ticket"
       IN  \/ /\ calls' = Append(calls, Call(fn, new_ticket, "", "return", 0, ""))
              /\ tcalls' = Append(tcalls, TCall(fn, new_ticket, payload, "return"))
              /\ pc' = IF op = "do_preview_job" THEN "create_job" ELSE "t_info"
              /\ UNCHANGED result
           \/ /\ calls' = Append(calls, Call(fn, new_ticket, "", "raise", 0, "ValidationError"))
              /\ tcalls' = Append(tcalls, TCall(fn, new_ticket, payload, "ValidationError"))
              /\ result' = TicketStoreError("ValidationError")
              /\ pc' = "done"
    /\ UNCHANGED <<flowFrame, flagVars, familyname, payload, new_ticket, adf_loaded,
                   output_duplex, i>>

\* Any call whose result the flow does not branch on; the flows discard the
\* status code of change_job_state and the log does not keep it.
FlowCall ==
    /\ pc \in DOMAIN PlainStep
    /\ LET c == PlainStep[pc]
       IN  \/ /\ calls' = Append(calls, c)
              /\ FlowGoto(After(pc))
           \/ /\ calls' = Append(calls, [c EXCEPT !.out = "raise", !.val = FlowFailure(c.fn)])
              /\ Fail(FlowFailure(c.fn))
    /\ UNCHANGED <<flowFrame, flagVars, familyname, payload, new_ticket, tcalls, adf_loaded,
                   output_duplex, i>>

\* do_copy_preview_job 634-636: the check that ends one pass of the preview loop
FlowPreviewWait ==
    /\ pc = "check_ready_p"
    /\ \/ /\ calls' = Append(calls, Call("check_job_state", "ready", "", "return", 0, ""))
          /\ i' = i + 1
          /\ pc' = IF i + 1 < preview_reps THEN "preview" ELSE AfterPreviews
          /\ UNCHANGED result
       \/ /\ calls' = Append(calls, Call("check_job_state", "ready", "", "raise", 0,
                                         "AssertionError"))
          /\ Fail("AssertionError")
          /\ UNCHANGED i
    /\ UNCHANGED <<flowFrame, flagVars, familyname, payload, new_ticket, tcalls, adf_loaded,
                   output_duplex>>

\* do_copy_job 525: self.has_two_segment_pipeline(ticket_id)
FlowDetect ==
    /\ pc = "detect"
    /\ \E info \in CaptureInfos :
         LET r == has_two_segment_pipeline(info)
         IN  /\ calls' = Append(calls, Call("get_job_ticket_info", new_ticket, "",
                                            IF info = "raise" THEN "raise" ELSE "return", 0,
                                            info))
             /\ IF r.err # ""
                THEN Fail(r.err)
                ELSE /\ pc' = IF r.val THEN "ts_prepare" ELSE "start"
                     /\ UNCHANGED result
    /\ UNCHANGED <<flowFrame, flagVars, familyname, payload, new_ticket, tcalls, adf_loaded,
                   output_duplex, i>>

\* do_copy_preview_job 653: adfLoaded = self._udw.mainApp.ScanMedia.isMediaLoaded('ADF')
FlowMedia ==
    /\ pc = "media"
    /\ \E loaded \in BOOLEAN :
         /\ adf_loaded' = loaded
         /\ calls' = Append(calls, Call("isMediaLoaded", "ADF", "", "return", 0,
                                        IF loaded THEN "True" ELSE "False"))
         /\ pc' = IF loaded THEN AfterAlert ELSE "alert_wait"
    /\ UNCHANGED <<flowFrame, flagVars, familyname, payload, new_ticket, tcalls, output_duplex,
                   i, result>>

\* do_copy_job 534-539, do_copy_preview_job 657-665: try ... except TimeoutError
FlowAlert ==
    /\ pc \in {"alert_wait", "alert_action"}
    /\ LET c == IF pc = "alert_wait"
                THEN Call("wait_for_alerts", "flatbedAddPage", "", "return", 0, "")
                ELSE Call("alert_action", "flatbedAddPage", "Response_02", "return", 0, "")
       IN  \/ /\ calls' = Append(calls, c)
              /\ pc' = IF pc = "alert_wait" THEN "alert_action" ELSE AfterAlert
              /\ UNCHANGED result
           \/ /\ calls' = Append(calls, [c EXCEPT !.out = "raise", !.val = "TimeoutError"])
              /\ pc' = AfterAlert
              /\ UNCHANGED result
           \/ /\ calls' = Append(calls, [c EXCEPT !.out = "raise", !.val = "TransportError"])
              /\ Fail("TransportError")
    /\ UNCHANGED <<flowFrame, flagVars, familyname, payload, new_ticket, tcalls, adf_loaded,
                   output_duplex, i>>

\* do_copy_job 552-553: "mdf" in listInputDevices().lower() and getBreakPoint() not in ["XL"]
FlowMdf ==
    /\ pc = "mdf"
    /\ \E mdf \in BOOLEAN :
         /\ calls' = Append(calls, Call("listInputDevices", "", "", "return", 0,
                                        IF mdf THEN "mdf" ELSE "adf"))
         /\ pc' = IF mdf THEN "dismiss" ELSE "completed"
    /\ UNCHANGED <<flowFrame, flagVars, familyname, payload, new_ticket, tcalls, adf_loaded,
                   output_duplex, i, result>>

InitFlows ==
    /\ variant \in {"CopyDune", "CopyEnterprise"}
    /\ family = NONE
    /\ product = NONE
    /\ entry = NONE
    /\ caller = NONE
    /\ cls = NONE
    /\ cls_family = ABSENT
    /\ cls_product = ABSENT
    /\ cancel = NONE
    /\ familyname = NONE
    /\ output_duplex = FALSE
    /\ timeout = MaxTimeout
    /\ adf_flag = NONE
    /\ duplex_flag = NONE
    /\ odup_flag = NONE
    /\ op = "none"
    /\ pc = "f_idle"
    /\ ticket_id = ""
    /\ preview_reps = 0
    /\ reps = 0
    /\ i = 0
    /\ now = 0
    /\ start_time = 0
    /\ job_ready = FALSE
    /\ start_state = 0
    /\ adf_loaded = FALSE
    /\ payload_in = base_payload
    /\ flags_in = NoFlags
    /\ payload = base_payload
    /\ new_ticket = ""
    /\ calls = <<>>
    /\ tcalls = <<>>
    /\ result = NoResult

NextFlows ==
    \/ FlowBegin
    \/ FlowFamily
    \/ FlowNormalize
    \/ FlowTicketCreate
    \/ FlowTicketUpdate
    \/ FlowCall
    \/ FlowPreviewWait
    \/ FlowDetect
    \/ FlowMedia
    \/ FlowAlert
    \/ FlowMdf

SpecFlows == InitFlows /\ [][NextFlows]_vars

\* ------------------------------------------------- a second construction
\* Copy.__new__ stores the device's family and product on the class Copy, which
\* every instance shares, and allocates a new object; the object made earlier
\* keeps its own class, and with it its start / preview_start / _updating_ticket.
OtherDevices ==
    {<<"enterprise", "moreto">>, <<"designjet", "moreto">>, <<"homepro", "beam">>}

ExistingInstanceFollowsFamily(v, f) ==
    IF f = "enterprise" THEN "CopyEnterprise"
    ELSE IF f = "designjet" THEN "CopyDesignJet"
    ELSE IF f = "homepro" THEN "CopyHomePro"
    ELSE "CopyDune"

ExistingInstanceClass(v, f) == v

ConstructAnother ==
    /\ Idle
    /\ \E d \in OtherDevices :
         /\ cls_family' = d[1]
         /\ cls_product' = d[2]
         /\ variant' = ExistingInstanceClass(variant, d[1])
    /\ UNCHANGED <<timeout, family, product, entry, caller, cls, flowVars, flagVars,
                   ticketVars, argVars, startLocals, clockVars, pc, calls, result>>

InitLife == Init /\ timeout = MaxTimeout

NextLife == Next \/ ConstructAnother

SpecLife == InitLife /\ [][NextLife]_vars

\* ================================================================== claims
IsAction(k, action) == calls[k].fn = "change_job_state" /\ calls[k].a1 = action
ActionIdx(action) == {k \in 1..Len(calls) : IsAction(k, action)}
FnIdx(fn) == {k \in 1..Len(calls) : calls[k].fn = fn}
StartIdx == ActionIdx("Start")
InStart == op = "start"
InStartOrPreviewStart == op \in {"start", "preview_start"}
Finished == pc = "done"

\* C1 (as claimed): in every variant, a start call with preview_reps = N > 0 that
\* has issued 'Start' issued exactly N 'Preview' actions before it.
C1_ExactlyNPreviewsEveryVariant ==
    (InStart /\ preview_reps > 0) =>
        \A k \in StartIdx :
            Cardinality({j \in ActionIdx("Preview") : j < k}) = preview_reps

\* C2: a start call with preview_reps = 0 never issues a 'Preview' action and never
\* waits for the job to return to 'ready': the preview loop body runs zero times.
C2_NoPreviewWhenZeroReps ==
    (InStart /\ preview_reps = 0) =>
        /\ ActionIdx("Preview") = {}
        /\ FnIdx("wait_for_job_state") \cap {k \in 1..Len(calls) : calls[k].a1 = "ready"} = {}
        /\ pc \notin {"preview", "preview_wait"}
        /\ i = 0

C2_Witness ==
    /\ InStart /\ preview_reps = 0 /\ Finished
    /\ result.out = "return"
    /\ StartIdx # {}

\* C3: when the caller's payload has dest.print.plexMode 'duplex' and a
\* duplexBinding that is absent or 'oneSided', the payload create_ticket passes to
\* the ticket store's update has duplexBinding 'twoSidedLongEdge'.
NeedsBinding(p) ==
    p.dest = "print" /\ p.destPlexMode = "duplex" /\ p.duplexBinding \in {ABSENT, "oneSided"}

C3_DuplexBindingForced ==
    (op = "create_ticket" /\ NeedsBinding(payload_in)) =>
        \A k \in 1..Len(tcalls) :
            tcalls[k].fn = "update" => tcalls[k].payload.duplexBinding = "twoSidedLongEdge"

C3_Witness ==
    /\ op = "create_ticket" /\ Finished
    /\ payload_in.destPlexMode = "duplex" /\ payload_in.duplexBinding = "oneSided"
    /\ \E k \in 1..Len(tcalls) : tcalls[k].fn = "update" /\ tcalls[k].out = "return"

\* C4: whenever start returns normally its return value is the status code the job
\* manager returned for the 'Start' action, whatever the code, the variant and
\* preview_reps, also when the flatbedAddPage wait timed out.
C4_ReturnsStartStatus ==
    (InStart /\ Finished /\ result.out = "return") =>
        /\ StartIdx # {}
        /\ \A k \in StartIdx : calls[k].out = "return" /\ result.code = calls[k].code

C4_Witness ==
    /\ InStart /\ Finished /\ result.out = "return" /\ result.code = 400
    /\ \E k \in FnIdx("wait_for_alerts") : calls[k].val = "TimeoutError"

\* C5: if 'Initialize' returned 200 and every get_job_info poll made before the
\* deadline reported a state other than 'ready', the call fails with a TimeoutError
\* whose message is the "not reached the ready state" text formatted with
\* WAIT_START_JOB_TIMEOUT, and no 'Start' action is issued.
InitializeOk == \E k \in ActionIdx("Initialize") : calls[k].out = "return" /\ calls[k].code = 200
AllPollsNotReady ==
    \A k \in FnIdx("get_job_info") : calls[k].out = "return" /\ calls[k].val # "ready"

C5_NeverReadyTimesOut ==
    (InStartOrPreviewStart /\ Finished /\ InitializeOk /\ AllPollsNotReady) =>
        /\ result.out = "raise"
        /\ result.val = "TimeoutError"
        /\ result.msg = ReadyMsg
        /\ result.arg = timeout
        /\ StartIdx = {}

C5_Witness ==
    /\ InStart /\ Finished /\ InitializeOk /\ AllPollsNotReady
    /\ \E k \in FnIdx("get_job_info") : calls[k].val = "cancelled"
    /\ result.val = "TimeoutError"

\* C6 (as claimed): if 'Initialize' returns a status other than 200, the sequence
\* fails with a StateTransitionError.
InitializeRejected ==
    \E k \in ActionIdx("Initialize") : calls[k].out = "return" /\ calls[k].code # 200

C6_FailsWithStateTransitionError ==
    (InStartOrPreviewStart /\ Finished /\ InitializeRejected) =>
        (result.out = "raise" /\ result.val = "StateTransitionError")

\* C6 (amended): if 'Initialize' returns a status other than 200, the sequence ends
\* there with an AssertionError: no poll and no further action is issued.
C6_FailsWithAssertionError ==
    (InStartOrPreviewStart /\ InitializeRejected) =>
        /\ Finished
        /\ result.out = "raise" /\ result.val = "AssertionError"
        /\ Len(calls) = 1

C6_Witness ==
    /\ InStart /\ Finished /\ InitializeRejected

\* C7: 'Start' is issued only after the 'Initialize' action of the same call
\* returned 200 and a later get_job_info poll returned state 'ready'.
C7_StartOnlyAfterReady ==
    \A k \in StartIdx :
        \E a \in ActionIdx("Initialize"), b \in FnIdx("get_job_info") :
            /\ a < b /\ b < k
            /\ calls[a].out = "return" /\ calls[a].code = 200
            /\ calls[b].out = "return" /\ calls[b].val = "ready"

C7_Witness ==
    /\ StartIdx # {}
    /\ \E b \in FnIdx("get_job_info") : calls[b].val = "initializing"


\* C8 (as claimed): in the enterprise and base-dune variants, for every
\* preview_reps, once 'Start' has returned, if the feeder was recorded as not
\* loaded (and, for enterprise, output duplex was recorded), start waits for the
\* 'flatbedAddPage' alert and answers it with 'Response_02'.
StartReturned == \E k \in StartIdx : calls[k].out = "return"
AlertWaited == \E k \in FnIdx("wait_for_alerts") : \E s \in StartIdx : s < k
AlertAnswered ==
    \A k \in FnIdx("wait_for_alerts") :
        calls[k].out = "return" =>
            \E a \in FnIdx("alert_action") :
                a > k /\ calls[a].a1 = "flatbedAddPage" /\ calls[a].a2 = "Response_02"

DeviceSaysAdfEmpty == \E k \in FnIdx("isMediaLoaded") : calls[k].val = "False"
ExpectedAlertWait ==
    IF variant = "CopyEnterprise" /\ preview_reps = 0
    THEN odup_flag = "True"
    ELSE preview_reps > 0 /\ DeviceSaysAdfEmpty

AlertWaitTimedOut ==
    \E k \in FnIdx("wait_for_alerts") : calls[k].out = "raise" /\ calls[k].val = "TimeoutError"

C9_AlertTimeoutSwallowed ==
    (InStart /\ AlertWaitTimedOut) =>
        /\ Finished
        /\ result.out = "return"
        /\ \E k \in StartIdx : result.code = calls[k].code
        /\ FnIdx("alert_action") = {}

C9_Witness ==
    /\ InStart /\ AlertWaitTimedOut /\ Finished
    /\ variant = "CopyDune"
    /\ result.out = "return"

\* C10: in the designjet variant, once detection has read scanCaptureMode
\* 'jobBuild', the calls that follow are, in this order: 'Prepare_Processing',
\* the wait for state 'processing', the wait for all previews, the read of the copy
\* configuration, the wait for the 'printing' sub-status exactly when copyMode is
\* 'printWhileScanning', and last 'Start', issued once.
Key(c) == IF c.fn = "change_job_state" THEN c.a1 ELSE c.fn
TwoSegmentOrder(withPrinting) ==
    <<"Prepare_Processing", "wait_for_job_state", "wait_for_all_previews_done",
      "get_copy_configuration">>
    \o (IF withPrinting THEN <<"wait_for_job_processing_sub_status">> ELSE <<>>)
    \o <<"Start">>
IsPrefixOf(a, b) == Len(a) <= Len(b) /\ \A k \in 1..Len(a) : a[k] = b[k]
DetectedIdx == {k \in FnIdx("get_info") : calls[k].val = "jobBuild"}
PrintWhileScanning ==
    \E k \in FnIdx("get_copy_configuration") : calls[k].val = "printWhileScanning"

C10_TwoSegmentOrder ==
    (InStart /\ variant = "CopyDesignJet") =>
        \A g \in DetectedIdx :
            LET tail == [k \in 1..(Len(calls) - g) |-> Key(calls[g + k])]
            IN  /\ IsPrefixOf(tail, TwoSegmentOrder(PrintWhileScanning))
                /\ \A k \in FnIdx("wait_for_job_state") : k > g => calls[k].a1 = "processing"
                /\ \A k \in FnIdx("wait_for_job_processing_sub_status") :
                       calls[k].a1 = "printing"
                /\ Cardinality(StartIdx) <= 1
                /\ (Finished /\ result.out = "return") => StartIdx = {Len(calls)}

C10_Witness ==
    /\ InStart /\ variant = "CopyDesignJet" /\ Finished
    /\ DetectedIdx # {}
    /\ result.out = "return"
    /\ FnIdx("wait_for_job_processing_sub_status") # {}


\* C11: two-segment detection answers True exactly when get_info returned data whose
\* src.scan.scanCaptureMode is 'jobBuild'; when get_info raises or the data lacks
\* src, scan or scanCaptureMode it answers False, and it never raises.
GetInfoIdx == FnIdx("get_info")
C11_DetectionNeverRaises ==
    \A k \in GetInfoIdx :
        LET positive == calls[k].out = "return" /\ calls[k].val = "jobBuild"
        IN  /\ (op = "has_two_segment_pipeline") =>
                /\ Finished
                /\ result.out = "return"
                /\ result.val = (IF positive THEN "True" ELSE "False")
            /\ (InStart /\ k = Len(calls)) =>
                /\ ~Finished
                /\ pc = (IF positive THEN "prepare" ELSE "start")

C11_Witness ==
    /\ op = "has_two_segment_pipeline" /\ Finished
    /\ \E k \in GetInfoIdx : calls[k].out = "raise"
    /\ result.val = "False"


\* C12: an orchestrator constructed through Copy is of the variant of the device's
\* family: enterprise -> CopyEnterprise, designjet -> CopyDesignJet, homepro ->
\* CopyHomePro, and homepro with a product name containing 'beam' -> CopyBeam.
MadeThroughCopy == entry = "Copy" /\ pc \in {"made", "failed"}
VariantOfFamily(f, p) ==
    IF f = "enterprise" THEN "CopyEnterprise"
    ELSE IF f = "designjet" THEN "CopyDesignJet"
    ELSE IF f = "homepro" THEN (IF HasBeam(p) THEN "CopyBeam" ELSE "CopyHomePro")
    ELSE "CopyDune"
C12_VariantByFamily ==
    MadeThroughCopy => (pc = "made" /\ variant = VariantOfFamily(family, product))

\* C13: construction through Copy is decided by the (family, product) pair alone,
\* whatever earlier constructions left on the class, and an unrecognized family
\* yields the generic CopyDune without raising.
RecognizedFamilies == {"enterprise", "designjet", "homepro"}
C13_UnrecognizedFamilyGeneric ==
    MadeThroughCopy =>
        /\ cls_family = family
        /\ cls_product = product
        /\ (family \notin RecognizedFamilies) =>
            /\ pc = "made"
            /\ result = NoResult
            /\ variant = "CopyDune"

C13_Witness ==
    /\ MadeThroughCopy
    /\ family = "ares"
    /\ variant = "CopyDune"


\* C14: create_ticket calls the ticket store's create exactly once, with the
\* skeleton {'src': {'scan': {}}, 'dest': {'print': {}}}, then update exactly once
\* with the id create returned and the normalized payload, and returns that id;
\* create always comes before update.
Skeleton ==
    [src |-> "scan", mediaSource |-> ABSENT, srcPlexMode |-> ABSENT, resolution |-> ABSENT,
     dest |-> "print", destPlexMode |-> ABSENT, duplexBinding |-> ABSENT]
Normalized(v, p) == updating_ticket(v, p, NONE, NONE, NONE).payload
SameTicketCall(c, fn, id, p) == c.fn = fn /\ c.id = id /\ c.payload = p
C14_CreateThenUpdateOnce ==
    (op = "create_ticket") =>
        /\ Len(tcalls) <= 2
        /\ Len(tcalls) >= 1 => SameTicketCall(tcalls[1], "create", "", Skeleton)
        /\ Len(tcalls) = 2 =>
            /\ tcalls[1].out = "return"
            /\ SameTicketCall(tcalls[2], "update", new_ticket,
                              Normalized(variant, payload_in))
        /\ (Finished /\ result.out = "return") =>
            /\ Len(tcalls) = 2
            /\ tcalls[2].out = "return"
            /\ new_ticket \in StoreTicketIds
            /\ result.val = new_ticket

C14_Witness ==
    /\ op = "create_ticket" /\ Finished /\ result.out = "return"
    /\ result.val = "ticket_2"
    /\ payload # payload_in

\* C15: when the ticket store's create raises, create_ticket raises that same
\* error, returns no ticket id and never calls update.
CreateFailed == Len(tcalls) >= 1 /\ tcalls[1].fn = "create" /\ tcalls[1].out # "return"
C15_CreateFailurePropagates ==
    (op = "create_ticket" /\ CreateFailed) =>
        /\ Finished
        /\ Len(tcalls) = 1
        /\ result = Raised(tcalls[1].out, "", 0)
        /\ new_ticket = ""

C15_Witness ==
    /\ op = "create_ticket" /\ Finished
    /\ CreateFailed /\ tcalls[1].out = "ValidationError"
    /\ result.out = "raise"


\* C16: cancel makes exactly one cancel_job call and returns its status code
\* unchanged (200, 404 or any other); it requests no other state change of the job
\* and changes nothing of the orchestrator.
C16_CancelPassThrough ==
    [][(Idle /\ op' = "cancel") =>
          /\ pc' = "done"
          /\ Len(calls') = 1
          /\ calls'[1].fn = "cancel_job"
          /\ calls'[1].out = "return" =>
                (result'.out = "return" /\ result'.code = calls'[1].code)
          /\ tcalls' = tcalls
          /\ UNCHANGED <<objVars, flagVars>>]_vars

C16_Witness ==
    /\ op = "cancel" /\ Finished
    /\ calls[1].code = 404
    /\ result.out = "return" /\ result.code = 404

\* C17: wait_for_state returns the state the job manager's wait_for_job_state
\* returned, and a TimeoutError of wait_for_job_state leaves wait_for_state as
\* that same TimeoutError.
C17_WaitForStatePassThrough ==
    (op = "wait_for_state") =>
        /\ Finished
        /\ Len(calls) = 1
        /\ calls[1].fn = "wait_for_job_state"
        /\ calls[1].out = "return" => result = Returned(0, calls[1].val)
        /\ calls[1].out = "raise" => result = Raised(calls[1].val, WaitTimeoutMsg, 0)

C17_Witness ==
    /\ op = "wait_for_state" /\ Finished
    /\ calls[1].out = "raise" /\ calls[1].val = "TimeoutError"
    /\ result.out = "raise" /\ result.val = "TimeoutError"


\* C18 as claimed: a TimeoutError raised while a preview iteration waits for
\* 'ready' is tolerated and does not leave start / preview_start.
PreviewWaitTimedOut ==
    {k \in FnIdx("wait_for_job_state") :
        calls[k].a1 = "ready" /\ calls[k].out = "raise" /\ calls[k].val = "TimeoutError"}
C18_PreviewTimeoutTolerated ==
    (InStartOrPreviewStart /\ Finished /\ PreviewWaitTimedOut # {}) =>
        ~(result.out = "raise" /\ result.val = "TimeoutError")

\* C18 amended: a TimeoutError raised while a preview iteration waits for 'ready'
\* is not caught: it ends start / preview_start as that TimeoutError, and neither
\* another 'Preview' nor the 'Start' action follows it.
C18_PreviewTimeoutPropagates ==
    (InStartOrPreviewStart /\ PreviewWaitTimedOut # {}) =>
        /\ Finished
        /\ result.out = "raise" /\ result.val = "TimeoutError"
        /\ PreviewWaitTimedOut = {Len(calls)}
        /\ StartIdx = {}

C18_Witness ==
    /\ op = "start" /\ variant = "CopyEnterprise" /\ Finished
    /\ PreviewWaitTimedOut # {}
    /\ ActionIdx("Preview") # {}


\* C20: a cancel of the job by another caller during the readiness poll of
\* preview_start does not end the loop: after a poll that read 'cancelled' the
\* loop polls again while the timeout has not elapsed, and once it has elapsed
\* the operation ends with the TimeoutError of the readiness wait.
ReadCancelled ==
    {k \in FnIdx("get_job_info") : calls[k].out = "return" /\ calls[k].val = "cancelled"}
C20_CancelledJobPolledUntilTimeout ==
    InStartOrPreviewStart =>
        \A k \in ReadCancelled :
            /\ (k < Len(calls)) => calls[k + 1].fn = "get_job_info"
            /\ (k = Len(calls) /\ ~Finished) => (pc = "poll" /\ ~job_ready)
            /\ (k = Len(calls) /\ Finished) =>
                /\ result.out = "raise" /\ result.val = "TimeoutError"
                /\ result.msg = ReadyMsg /\ result.arg = timeout
                /\ now - start_time >= timeout

C20_Witness ==
    /\ op = "preview_start" /\ Finished
    /\ Len(calls) = 3
    /\ ReadCancelled = {2, 3}
    /\ result.val = "TimeoutError"


\* C19: in do_preview_job, do_copy_job, do_copy_preview_job and start_copy_job
\* the ticket is created and updated before the create_job call that consumes it,
\* create_job is given that ticket id and is called at most once (exactly once in
\* a flow that returns), and no ticket create or update follows create_job.
TicketWrites == {"create", "update", "create_job_ticket", "update_job_ticket"}
CreateJobIdx == FnIdx("create_job")
C19_TicketBeforeJob ==
    (op \in Flows) =>
        /\ \A j \in CreateJobIdx :
              /\ CreateJobIdx = {j}
              /\ calls[j].a1 = new_ticket /\ new_ticket \in StoreTicketIds
              /\ \E k \in 1..(j - 1) :
                    calls[k].fn \in {"create", "create_job_ticket"}
                    /\ calls[k].out = "return" /\ calls[k].val = new_ticket
              /\ \A k \in 1..Len(calls) : calls[k].fn \in TicketWrites => k < j
              /\ Len(tcalls) = Cardinality({k \in 1..(j - 1) : calls[k].fn \in TicketWrites})
        /\ (Finished /\ result.out = "return") => CreateJobIdx # {}

C19_Witness ==
    /\ op = "do_copy_job" /\ Finished /\ result.out = "return"
    /\ cancel = "no"
    /\ \E j \in CreateJobIdx :
          /\ calls[j - 2].fn = "update_job_ticket"
          /\ \E k \in (j + 1)..Len(calls) : calls[k].fn = "get_job_ticket_info"


\* C21: in start / preview_start every 'Preview' action is followed directly by a
\* wait_for_job_state(['ready']), and that wait has returned before the next
\* 'Preview' and before 'Start' is issued.
PreviewIdx == ActionIdx("Preview")
IsReadyWait(k) == calls[k].fn = "wait_for_job_state" /\ calls[k].a1 = "ready"
C21_PreviewThenCompletedWait ==
    InStartOrPreviewStart =>
        \A k \in PreviewIdx :
            /\ (k = Len(calls) /\ calls[k].out = "return") => pc = "preview_wait"
            /\ (k < Len(calls)) => IsReadyWait(k + 1)
            /\ \A l \in PreviewIdx \cup StartIdx :
                  l > k => (l > k + 1 /\ calls[k + 1].out = "return")

C21_Witness ==
    /\ op = "start" /\ variant = "CopyDune" /\ preview_reps = 2
    /\ Cardinality(PreviewIdx) = 2
    /\ StartIdx # {}

\* C22: within one start call 'Initialize', 'Start' and 'Prepare_Processing' are
\* each issued at most once, whatever status codes and errors the job manager
\* returns.
C22_NoRetry ==
    InStartOrPreviewStart =>
        /\ Cardinality(ActionIdx("Initialize")) <= 1
        /\ Cardinality(StartIdx) <= 1
        /\ Cardinality(ActionIdx("Prepare_Processing")) <= 1

C22_Witness ==
    /\ op = "start" /\ variant = "CopyDesignJet" /\ Finished
    /\ \E k \in ActionIdx("Prepare_Processing") : calls[k].code = 400
    /\ result.out = "raise"


\* C23: the readiness poll of preview_start terminates as the clock advances.
\* get_job_info is called only while the time elapsed since the timestamp taken
\* after 'Initialize' returned is below WAIT_START_JOB_TIMEOUT, and never after a
\* poll read 'ready'; the p-th poll is made at least (p - 1) sleeps after that
\* timestamp, so the number of polls is bounded; a poll that reads 'ready' ends
\* the wait, and the TimeoutError is raised exactly when the loop test finds that
\* elapsed time (not the time since the call began) at or over the timeout.
PollIdx == FnIdx("get_job_info")
Elapsed == now - start_time
PollMade == Len(calls') = Len(calls) + 1 /\ calls'[Len(calls')].fn = "get_job_info"
ReadReady == \E k \in PollIdx : calls[k].out = "return" /\ calls[k].val = "ready"
C23_PollStep ==
    (InStartOrPreviewStart /\ pc = "poll") =>
        /\ PollMade =>
              /\ Elapsed < timeout
              /\ ~ReadReady
              /\ PollInterval * Cardinality(PollIdx) <= Elapsed
              /\ calls'[Len(calls')].val = "ready" => pc' # "poll"
        /\ ~(Elapsed < timeout) =>
              /\ ~PollMade
              /\ pc' = "done"
              /\ result' = Raised("TimeoutError", ReadyMsg, timeout)
        /\ (pc' = "done" /\ result'.out = "raise" /\ result'.val = "TimeoutError") =>
              ~(Elapsed < timeout)

C23_PollTerminates == [][C23_PollStep]_vars

C23_Witness ==
    /\ InStartOrPreviewStart
    /\ timeout = MaxTimeout /\ start_time = 1 /\ now >= timeout
    /\ Cardinality(PollIdx) = 2
    /\ ReadReady


\* C24: for an orchestrator that is not the designjet variant, start never issues
\* 'Prepare_Processing' and never asks the ticket store for the capture mode, so
\* what detection would report plays no part; with preview_reps = 0 its
\* state-change actions are 'Initialize' then 'Start' and nothing else.
StateChanges ==
    LET sc == SelectSeq(calls, LAMBDA c : c.fn = "change_job_state")
    IN  [k \in 1..Len(sc) |-> sc[k].a1]
C24_NoPrepareOutsideDesignJet ==
    (InStart /\ variant # "CopyDesignJet") =>
        /\ ActionIdx("Prepare_Processing") = {}
        /\ FnIdx("get_info") = {}
        /\ preview_reps = 0 =>
              /\ IsPrefixOf(StateChanges, <<"Initialize", "Start">>)
              /\ (Finished /\ result.out = "return") =>
                     StateChanges = <<"Initialize", "Start">>

C24_Witness ==
    /\ InStart /\ variant = "CopyEnterprise" /\ ticket_id # "" /\ preview_reps = 0
    /\ Finished /\ result.out = "return"
    /\ StateChanges = <<"Initialize", "Start">>


\* C25 (as claimed): in the enterprise variant with preview_reps = 0, start waits
\* for the 'flatbedAddPage' alert only if an earlier create_ticket recorded the
\* feeder as not loaded (a flatbed media source); with no such ticket it neither
\* waits for nor answers the alert.
FlatbedRecorded == adf_flag = "False"
C25_WaitsOnlyIfFlatbedRecorded ==
    (InStart /\ variant = "CopyEnterprise" /\ preview_reps = 0 /\ ~FlatbedRecorded) =>
        /\ FnIdx("wait_for_alerts") = {}
        /\ FnIdx("alert_action") = {}


\* C26: within one start call alert_action is issued at most once, always as
\* alert_action('flatbedAddPage', 'Response_02'), only after the 'Start' action of
\* that call and only after a wait_for_alerts('flatbedAddPage') of that call
\* returned without error.
AlertActionIdx == FnIdx("alert_action")
C26_AlertAnsweredOnceAfterWait ==
    InStart =>
        /\ Cardinality(AlertActionIdx) <= 1
        /\ \A a \in AlertActionIdx :
              /\ calls[a].a1 = "flatbedAddPage"
              /\ calls[a].a2 = "Response_02"
              /\ \E s \in StartIdx : s < a
              /\ \E w \in FnIdx("wait_for_alerts") :
                    /\ w < a
                    /\ calls[w].a1 = "flatbedAddPage"
                    /\ calls[w].out = "return"
                    /\ \E s \in StartIdx : s < w

C26_Witness ==
    /\ InStart /\ Finished
    /\ variant = "CopyDune" /\ preview_reps > 0
    /\ \E a \in AlertActionIdx : calls[a].out = "return"


\* C27: an error other than TimeoutError raised by wait_for_alerts or
\* alert_action, and any error raised by the 'Initialize', 'Preview' or 'Start'
\* state-change call, reaches the caller of start unchanged and is the last thing
\* that start call does.
PropagatingErrorIdx ==
    {k \in 1..Len(calls) :
        /\ calls[k].out = "raise"
        /\ \/ calls[k].fn \in {"wait_for_alerts", "alert_action"} /\ calls[k].val # "TimeoutError"
           \/ IsAction(k, "Initialize") \/ IsAction(k, "Preview") \/ IsAction(k, "Start")}
C27_OtherErrorsPropagate ==
    InStart =>
        \A k \in PropagatingErrorIdx :
            /\ k = Len(calls)
            /\ Finished
            /\ result = Raised(calls[k].val, "", 0)

C27_Witness ==
    /\ InStart /\ Finished
    /\ \E k \in PropagatingErrorIdx : calls[k].fn = "alert_action"
    /\ result.out = "raise" /\ result.val = "TransportError"


\* C28: in the designjet two-segment path, if 'Prepare_Processing' returns a
\* status other than 200, or the wait for state 'processing' times out, or
\* wait_for_all_previews_done returns a false result, start fails and the final
\* 'Start' action is never issued for that call.
PrepareRejectedIdx ==
    {k \in ActionIdx("Prepare_Processing") : calls[k].out = "return" /\ calls[k].code # 200}
ProcessingTimedOutIdx ==
    {k \in FnIdx("wait_for_job_state") :
        calls[k].a1 = "processing" /\ calls[k].out = "raise" /\ calls[k].val = "TimeoutError"}
PreviewsNotDoneIdx ==
    {k \in FnIdx("wait_for_all_previews_done") :
        calls[k].out = "return" /\ calls[k].val = "False"}
TwoSegmentFailureIdx == PrepareRejectedIdx \cup ProcessingTimedOutIdx \cup PreviewsNotDoneIdx
C28_TwoSegmentFailureStopsStart ==
    (InStart /\ variant = "CopyDesignJet") =>
        \A k \in TwoSegmentFailureIdx :
            /\ k = Len(calls)
            /\ Finished
            /\ result.out = "raise"
            /\ result.val = (IF k \in ProcessingTimedOutIdx THEN "TimeoutError"
                             ELSE "AssertionError")
            /\ StartIdx = {}

C28_Witness ==
    /\ InStart /\ variant = "CopyDesignJet" /\ Finished
    /\ PreviewsNotDoneIdx # {}
    /\ result.val = "AssertionError"


\* C29: in the designjet variant, start called with ticket_id = '' never asks the
\* ticket store (no get_info) and takes the single-segment path; and whenever
\* detection did not report a two-segment pipeline there is no
\* 'Prepare_Processing' and no wait for 'processing', for the previews or for
\* 'printing': the state-change actions are 'Initialize' then 'Start' only.
TwoSegmentCallIdx ==
    ActionIdx("Prepare_Processing")
    \cup {k \in FnIdx("wait_for_job_state") : calls[k].a1 = "processing"}
    \cup FnIdx("wait_for_all_previews_done")
    \cup FnIdx("get_copy_configuration")
    \cup FnIdx("wait_for_job_processing_sub_status")
C29_SingleSegmentPath ==
    (InStart /\ variant = "CopyDesignJet") =>
        /\ ticket_id = "" => FnIdx("get_info") = {}
        /\ DetectedIdx = {} =>
              /\ TwoSegmentCallIdx = {}
              /\ IsPrefixOf(StateChanges, <<"Initialize", "Start">>)
              /\ (Finished /\ result.out = "return") =>
                     StateChanges = <<"Initialize", "Start">>

C29_Witness ==
    /\ InStart /\ variant = "CopyDesignJet" /\ ticket_id = ""
    /\ Finished /\ result.out = "return"
    /\ StateChanges = <<"Initialize", "Start">>


\* C30 (as claimed): in the enterprise variant, for every payload that contains a
\* src.scan.resolution value, the payload create_ticket passes to update has
\* src.scan.resolution = 'e600Dpi'; in every other variant the resolution passed
\* to update is the one the caller gave.
UpdateIdx == {k \in 1..Len(tcalls) : tcalls[k].fn = "update"}
HasResolution(p) == p.src = "scan" /\ p.resolution # ABSENT
C30_ResolutionOverride ==
    (op = "create_ticket") =>
        \A k \in UpdateIdx :
            tcalls[k].payload.resolution =
                (IF variant = "CopyEnterprise" /\ HasResolution(payload_in)
                 THEN "e600Dpi"
                 ELSE payload_in.resolution)


\* C31: the variant of an orchestrator is fixed at construction: no step of
\* create_ticket, start, preview_start, cancel, wait_for_state or of the detection,
\* and no construction of another orchestrator, changes the class whose start,
\* preview_start and _updating_ticket the instance uses.
C31_VariantFixed == [][variant' = variant]_vars

C31_Witness ==
    /\ variant = "CopyEnterprise" /\ cls_family = "designjet"
    /\ InStart /\ Finished /\ ticket_id # ""
    /\ AlertActionIdx # {}
    /\ FnIdx("get_info") = {}


\* C32: the recorded flags are monotonic over the orchestrator's lifetime: in
\* every step _adf_loaded keeps its value or goes from unset to False, and _duplex
\* and _output_duplex keep theirs or go from unset to True; a later create_ticket
\* naming a non-flatbed source or a non-duplex output does not reset them.
FlagKeptOrSet(old, new, value) == new = old \/ (old = NONE /\ new = value)
C32_FlagStep ==
    /\ FlagKeptOrSet(adf_flag, adf_flag', "False")
    /\ FlagKeptOrSet(duplex_flag, duplex_flag', "True")
    /\ FlagKeptOrSet(odup_flag, odup_flag', "True")

C32_FlagsMonotonic == [][C32_FlagStep]_vars

C32_Witness ==
    /\ op = "create_ticket" /\ Finished /\ result.out = "return"
    /\ payload_in.mediaSource = "adf" /\ adf_flag = "False"
    /\ payload_in.srcPlexMode = "simplex" /\ duplex_flag = "True"
    /\ payload_in.destPlexMode = "simplex" /\ odup_flag = "True"


\* C33: ticket normalization is idempotent. do_preview_job normalizes its payload
\* and hands it to create_ticket, which normalizes it again: after the first
\* pass a second pass changes neither the payload nor the recorded flags, and the
\* payload do_preview_job passes to update, and the flags it leaves, are those of
\* a single create_ticket on the caller's payload.
Once(v, p) == updating_ticket(v, p, NONE, NONE, NONE)
SameAsOnce(r) ==
    /\ payload = r.payload
    /\ adf_flag = r.adf /\ duplex_flag = r.dup /\ odup_flag = r.odup
C33_NormalizationIdempotent ==
    (op = "do_preview_job") =>
        /\ pc = "pj_ct_normalize" =>
              LET again == updating_ticket(variant, payload, adf_flag, duplex_flag, odup_flag)
              IN  again.err = "" /\ SameAsOnce(again)
        /\ pc # "pj_normalize" => SameAsOnce(Once(variant, payload_in))
        /\ \A k \in UpdateIdx : tcalls[k].payload = Once(variant, payload_in).payload

C33_Witness ==
    /\ op = "do_preview_job" /\ variant = "CopyEnterprise"
    /\ payload_in.resolution = "e300Dpi"
    /\ payload_in.mediaSource = "flatbed" /\ payload_in.srcPlexMode = "duplex"
    /\ payload_in.destPlexMode = "duplex" /\ payload_in.duplexBinding = "oneSided"
    /\ \E k \in UpdateIdx :
          /\ tcalls[k].out = "return"
          /\ tcalls[k].payload.resolution = "e600Dpi"
          /\ tcalls[k].payload.duplexBinding = "twoSidedLongEdge"


\* C34: normalization changes nothing but what its rules name. In the payload
\* create_ticket passes to update, every field other than dest.print.duplexBinding
\* (and src.scan.resolution in the enterprise variant) is the caller's; when
\* dest.print.plexMode is absent or not 'duplex' the duplexBinding is the caller's
\* too (a 'oneSided' one is kept), and when it is 'duplex' a duplexBinding present
\* with a value other than 'oneSided' is kept.
FrameFields == {"src", "mediaSource", "srcPlexMode", "dest", "destPlexMode"}
C34_NormalizationFrame ==
    (op = "create_ticket") =>
        \A k \in UpdateIdx :
            LET q == tcalls[k].payload
            IN  /\ \A f \in FrameFields : q[f] = payload_in[f]
                /\ variant # "CopyEnterprise" => q.resolution = payload_in.resolution
                /\ payload_in.destPlexMode # "duplex" =>
                       /\ q.duplexBinding = payload_in.duplexBinding
                       /\ variant # "CopyEnterprise" => q = payload_in
                /\ (payload_in.destPlexMode = "duplex"
                    /\ payload_in.duplexBinding \notin {ABSENT, "oneSided"}) =>
                       q.duplexBinding = payload_in.duplexBinding

C34_Witness ==
    /\ op = "create_ticket" /\ variant = "CopyDune"
    /\ payload_in.destPlexMode = "duplex"
    /\ payload_in.duplexBinding = "twoSidedShortEdge"
    /\ \E k \in UpdateIdx :
          tcalls[k].out = "return" /\ tcalls[k].payload = payload_in


\* C35 (as claimed): for every payload, a fresh enterprise orchestrator that ran
\* create_ticket on it and then start with preview_reps = 0 waits for the
\* 'flatbedAddPage' alert exactly when the deprecated do_copy_job (familyname
\* 'enterprise', default adfLoaded, non-two-segment path) does for that payload,
\* that is exactly when the payload names a flatbed source and a duplex output.
OldFlowWaits(p) ==
    LET r == InlineNormalize(p, "enterprise", TRUE, FALSE)
    IN  r.err = "" /\ ~r.adf /\ r.odup
FlagsOfSingleTicket(p) ==
    LET r == Once("CopyEnterprise", p)
    IN  r.err = "" /\ adf_flag = r.adf /\ duplex_flag = r.dup /\ odup_flag = r.odup
C35_MigrationEquivalence ==
    ( /\ InStart /\ Finished /\ StartReturned
      /\ variant = "CopyEnterprise" /\ preview_reps = 0 ) =>
        \A p \in Payloads :
            FlagsOfSingleTicket(p) =>
                /\ AlertWaited <=> OldFlowWaits(p)
                /\ OldFlowWaits(p) <=>
                       (p.mediaSource = "flatbed" /\ p.destPlexMode = "duplex")


\* C36: in do_copy_job the job is cancelled at most once and no state-change
\* action follows the cancel. With cancel = after_create the cancel comes right
\* after create_job and neither 'Initialize' nor 'Start' is issued; with
\* after_init it comes right after 'Initialize' and 'Start' is never issued; with
\* after_start it comes only after 'Start'.
CancelJobIdx == FnIdx("cancel_job")
StateChangeIdx == FnIdx("change_job_state")
C36_CancelPoints ==
    (op = "do_copy_job") =>
        /\ Cardinality(CancelJobIdx) <= 1
        /\ \A c \in CancelJobIdx :
              /\ cancel \in {"after_create", "after_init", "after_start"}
              /\ \A k \in StateChangeIdx : k < c
              /\ cancel = "after_create" => calls[c - 1].fn = "create_job"
              /\ cancel = "after_init" => IsAction(c - 1, "Initialize")
              /\ cancel = "after_start" => \E st \in StartIdx : st < c
        /\ cancel = "after_create" => StateChangeIdx = {}
        /\ cancel = "after_init" => (StartIdx = {} /\ StateChanges \in {<<>>, <<"Initialize">>})
        /\ (Finished /\ result.out = "return"
            /\ cancel \in {"after_create", "after_init", "after_start"}) => CancelJobIdx # {}

C36_Witness ==
    /\ op = "do_copy_job" /\ cancel = "after_start"
    /\ Finished /\ result.out = "return"
    /\ ActionIdx("Prepare_Processing") # {}
    /\ \E c \in CancelJobIdx : IsAction(c - 1, "Start")


\* C37 (as claimed): if create_ticket fails, because normalization raises on
\* 'src' without 'scan' or 'dest' without 'print' or because the ticket store's
\* create or update raises, the recorded flags are the same as before the call.
CreateTicketFailed == op = "create_ticket" /\ Finished /\ result.out = "raise"
FlagsNow == <<adf_flag, duplex_flag, odup_flag>>
C37_FlagsUnchangedOnFailure == CreateTicketFailed => FlagsNow = flags_in

\* C37 (amended): a failed create_ticket leaves the flags as normalization had
\* set them when the failure happened: unchanged for 'src' without 'scan'; for
\* 'dest' without 'print' _adf_loaded and _duplex already record the payload's
\* src.scan settings and _output_duplex is unchanged; when the ticket store's
\* create or update raises, all three already record the payload.
SetIf(hit, value, old) == IF hit THEN value ELSE old
FlagsAfterSrc(p, f) ==
    <<SetIf(p.mediaSource = "flatbed", "False", f[1]),
      SetIf(p.srcPlexMode = "duplex", "True", f[2]),
      f[3]>>
FlagsAfterDest(p, f) == <<f[1], f[2], SetIf(p.destPlexMode = "duplex", "True", f[3])>>
C37_FlagsKeepWhatWasRecorded ==
    CreateTicketFailed =>
        FlagsNow = (IF payload_in.src = "noscan" THEN flags_in
                    ELSE IF payload_in.dest = "noprint"
                    THEN FlagsAfterSrc(payload_in, flags_in)
                    ELSE FlagsAfterDest(payload_in, FlagsAfterSrc(payload_in, flags_in)))

C37_Witness ==
    /\ CreateTicketFailed /\ result.val = "KeyError"
    /\ payload_in.dest = "noprint" /\ payload_in.mediaSource = "flatbed"
    /\ flags_in = NoFlags
    /\ FlagsNow = <<"False", NONE, NONE>>


\* C38: when WAIT_START_JOB_TIMEOUT is 0 or negative, preview_start issues
\* 'Initialize' and, once it is accepted, raises the TimeoutError of the readiness
\* wait without a single get_job_info call, whatever state the job is in. More
\* generally 'ready' is only ever read by a poll made before the deadline (the
\* p-th poll needs (p - 1) sleeps to fit strictly inside the timeout), and a call
\* whose polls before the deadline all read something else ends in that
\* TimeoutError.
PollsBefore(k) == Cardinality({j \in PollIdx : j < k})
TimedOut == result = Raised("TimeoutError", ReadyMsg, timeout)
C38_NoPollAtOrAfterDeadline ==
    InStartOrPreviewStart =>
        /\ timeout <= 0 =>
              /\ PollIdx = {}
              /\ ~job_ready
              /\ StartIdx = {}
              /\ Len(calls) <= 1
              /\ Finished => (IsAction(1, "Initialize") /\ (InitializeOk => TimedOut))
        /\ \A k \in PollIdx : PollInterval * PollsBefore(k) < timeout
        /\ (Finished /\ InitializeOk /\ AllPollsNotReady) => TimedOut

C38_Witness ==
    /\ InStartOrPreviewStart /\ Finished
    /\ timeout = 0
    /\ InitializeOk /\ PollIdx = {}
    /\ TimedOut

====
